---- MODULE Spec2Model ----
(***************************************************************************)
(* Image hosting service: the two-phase upload (initiate / finalize), the  *)
(* gallery listing with reference repair and the ownership-gated delete,   *)
(* over a Redis metadata index (hashes img:<iid>, sorted sets              *)
(* user:<uid>:images) and an S3 object store.                              *)
(*                                                                         *)
(* Strings are sequences of atoms (an atom is a character or a fixed       *)
(* substring such as "uploads/"), so that prefix tests, substring tests,   *)
(* percent-encoding and filename normalisation are computed, not assumed.  *)
(***************************************************************************)
EXTENDS Integers, Sequences, FiniteSets, TLC

VARIABLES redis, s3, handles, clock, last, nfinal, pipe

vars == <<redis, s3, handles, clock, last, nfinal, pipe>>

(***************************************************************************)
(* Bounds and input domains                                                *)
(***************************************************************************)
\* the clock (seconds) runs from 0 to MaxTime
MaxTime == 1

\* at most MaxFinalize finalize requests are served in one behaviour
MaxFinalize == 2

\* raw filenames given to sanitize_filename have at most MaxNameLen characters
MaxNameLen == 4

\* sanitize_filename is called with max_len from 0 to MaxCut, or the default
MaxCut == 2

Uids == {"u1", "u2"}

\* the ids uuid4 can produce, and their lexicographic rank as strings
Iids == {"img_a", "img_b"}

IidRank(i) == CASE i = "img_a" -> 1 [] i = "img_b" -> 2 [] OTHER -> 3

\* raw filenames clients send to initiate
FileNames == { <<"A", "#", ".", "P">> }

Mimes == {"image/png"}

None == "None"

(***************************************************************************)
(* Sequence helpers (Python str methods on sequences of atoms)             *)
(***************************************************************************)
Take(s, n) == SubSeq(s, 1, IF n < Len(s) THEN n ELSE Len(s))

Drop(s, n) == SubSeq(s, n + 1, Len(s))

Contains(s, a) == \E i \in 1..Len(s) : s[i] = a

StartsWith(s, a) == Len(s) > 0 /\ s[1] = a

\* str.rfind for a single character: 0-based index, -1 when absent
RFind(s, a) ==
  LET hits == {i \in 1..Len(s) : s[i] = a}
  IN  IF hits = {} THEN -1 ELSE (CHOOSE i \in hits : \A j \in hits : j <= i) - 1

RECURSIVE LStrip(_, _)
LStrip(s, set) ==
  IF Len(s) > 0 /\ s[1] \in set THEN LStrip(Tail(s), set) ELSE s

RECURSIVE RStrip(_, _)
RStrip(s, set) ==
  IF Len(s) > 0 /\ s[Len(s)] \in set THEN RStrip(SubSeq(s, 1, Len(s) - 1), set) ELSE s

Strip(s, set) == RStrip(LStrip(s, set), set)

(***************************************************************************)
(* Utils.sanitize_filename                                                 *)
(***************************************************************************)
UpperChars == {"A", "P"}

LowerChars == {"a", "p", "f", "i", "l", "e"}

lower(c) == CASE c = "A" -> "a" [] c = "P" -> "p" [] OTHER -> c

\* unicodedata.normalize("NFKD", c).encode("ascii", "ignore").decode()
normalize_char(c) ==
  CASE c = "e_acute" -> <<"e">>
    [] c = "cjk"     -> <<>>
    [] OTHER         -> <<c>>

RECURSIVE normalize(_)
normalize(value) ==
  IF value = <<>> THEN <<>> ELSE normalize_char(Head(value)) \o normalize(Tail(value))

\* os.path.splitext: the extension starts at the last dot after the last
\* "/", unless everything between that "/" and the dot is dots too
splitext(p) ==
  LET sepIndex == RFind(p, "/")
      dotIndex == RFind(p, ".")
  IN  IF dotIndex > sepIndex
         /\ \E k \in (sepIndex + 1)..(dotIndex - 1) : p[k + 1] # "."
      THEN <<Take(p, dotIndex), Drop(p, dotIndex)>>
      ELSE <<p, <<>> >>

NameChars == UpperChars \cup LowerChars \cup {".", "_", "-"}

\* re.sub(r"[^A-Za-z0-9._-]+", "-", s): each run of other characters -> "-"
RECURSIVE sub_runs(_, _)
sub_runs(s, inRun) ==
  IF s = <<>> THEN <<>>
  ELSE IF s[1] \in NameChars THEN <<s[1]>> \o sub_runs(Tail(s), FALSE)
  ELSE IF inRun THEN sub_runs(Tail(s), TRUE)
  ELSE <<"-">> \o sub_runs(Tail(s), TRUE)

\* variant: the case of the name is kept
lower_seq_KeepCase(s) == s

lower_seq(s) == [i \in 1..Len(s) |-> lower(s[i])]

\* re.sub(r"[^a-z0-9]", "", s)
keep_lower_alnum(s) == SelectSeq(s, LAMBDA c : c \in LowerChars)

DefaultMaxLen == 120

Utils_sanitize_filename(filename0, max_len) ==
  LET filename    == IF filename0 = <<>> THEN <<"f", "i", "l", "e">> ELSE filename0
      parts       == splitext(filename)
      stripped    == lower_seq(Strip(sub_runs(normalize(parts[1]), FALSE), {"-", ".", "_"}))
      safe_name   == IF stripped = <<>> THEN <<"f", "i", "l", "e">> ELSE stripped
      cut         == Take(safe_name, max_len)
      ext         == keep_lower_alnum(lower_seq(normalize(parts[2])))
      safe_ext    == IF ext = <<>> THEN <<>> ELSE <<".">> \o ext
  IN  cut \o safe_ext

(***************************************************************************)
(* S3Client (object store gateway)                                         *)
(***************************************************************************)
Bucket == "bucket"

\* urllib.parse.quote(key, safe="/"): unreserved characters and "/" are
\* kept, every other character is percent-encoded (UTF-8)
quote_atom(a) ==
  CASE a = " "       -> <<"%20">>
    [] a = "#"       -> <<"%23">>
    [] a = "e_acute" -> <<"%C3", "%A9">>
    [] a = "cjk"     -> <<"%E6", "%97", "%A5">>
    [] OTHER         -> <<a>>

RECURSIVE quote(_)
quote(key) == IF key = <<>> THEN <<>> ELSE quote_atom(Head(key)) \o quote(Tail(key))

S3Client_get_s3_url(key) == <<"s3://", Bucket, "/">> \o key

S3Client_get_public_url(key) ==
  <<"https://", Bucket, ".s3.amazonaws.com/">> \o quote(key)

S3Client_generate_presigned_upload_url(key, mime_type) ==
  <<"https://", Bucket, ".s3.amazonaws.com/">> \o quote(key)
    \o <<"?X-Amz-Expires=3600&put&ContentType=", mime_type>>

S3Client_generate_presigned_download_url(key) ==
  <<"https://", Bucket, ".s3.amazonaws.com/">> \o quote(key)
    \o <<"?X-Amz-Expires=3600&get">>

\* DeleteObject removes the object; deleting an absent key is not an error
\* variant: DeleteObject reports success and leaves the object in place
S3Client_delete_object_Keep(objects, key) == objects

S3Client_delete_object(objects, key) == objects \ {key}

(***************************************************************************)
(* RedisClient (metadata index)                                            *)
(* redis.img  : the hashes img:<iid>, a function on the ids that exist     *)
(* redis.zset : the sorted sets user:<uid>:images, member -> score         *)
(***************************************************************************)
EmptyHash == <<>>

\* variant: the hash is written, the ZADD is left out
RedisClient_store_image_NoZadd(r, iid, owner_uid, key, url, filename, mime_type, created_at) ==
  LET data == [id |-> iid, owner_uid |-> owner_uid, key |-> key, url |-> url,
               filename |-> filename, mime |-> mime_type, private |-> 1,
               created_at |-> created_at, views |-> 0]
  IN  [img  |-> [i \in DOMAIN r.img \cup {iid} |-> IF i = iid THEN data ELSE r.img[i]],
       zset |-> r.zset]

\* variant: an id that already has a record is left as it is
RedisClient_store_image_FirstWins(r, iid, owner_uid, key, url, filename, mime_type, created_at) ==
  IF iid \in DOMAIN r.img THEN r
  ELSE LET data == [id |-> iid, owner_uid |-> owner_uid, key |-> key, url |-> url,
                    filename |-> filename, mime |-> mime_type, private |-> 1,
                    created_at |-> created_at, views |-> 0]
           z    == r.zset[owner_uid]
       IN  [img  |-> [i \in DOMAIN r.img \cup {iid} |-> IF i = iid THEN data ELSE r.img[i]],
            zset |-> [r.zset EXCEPT ![owner_uid] =
                        [i \in DOMAIN z \cup {iid} |-> IF i = iid THEN created_at ELSE z[i]]]]

RedisClient_store_image(r, iid, owner_uid, key, url, filename, mime_type, created_at) ==
  LET data == [id |-> iid, owner_uid |-> owner_uid, key |-> key, url |-> url,
               filename |-> filename, mime |-> mime_type, private |-> 1,
               created_at |-> created_at, views |-> 0]
      z    == r.zset[owner_uid]
  IN  [img  |-> [i \in DOMAIN r.img \cup {iid} |-> IF i = iid THEN data ELSE r.img[i]],
       zset |-> [r.zset EXCEPT ![owner_uid] =
                   [i \in DOMAIN z \cup {iid} |-> IF i = iid THEN created_at ELSE z[i]]]]

RedisClient_get_image(r, iid) ==
  IF iid \in DOMAIN r.img THEN r.img[iid] ELSE EmptyHash

\* ZREVRANGE key 0 limit-1: highest score first, equal scores by member,
\* lexicographically highest first
RECURSIVE zrevrange(_, _)
zrevrange(z, n) ==
  IF n <= 0 \/ DOMAIN z = {} THEN <<>>
  ELSE LET top == CHOOSE i \in DOMAIN z : \A j \in DOMAIN z :
                    \/ z[j] < z[i]
                    \/ z[j] = z[i] /\ IidRank(j) <= IidRank(i)
       IN  <<top>> \o zrevrange([i \in DOMAIN z \ {top} |-> z[i]], n - 1)

RedisClient_get_user_images(r, uid, limit) == zrevrange(r.zset[uid], limit)

RedisClient_get_images_batch(r, iids) ==
  [k \in 1..Len(iids) |-> RedisClient_get_image(r, iids[k])]

\* variant: the pipeline removes the hash and leaves the sorted set alone
RedisClient_delete_image_NoZrem(r, iid, uid) ==
  [img  |-> [i \in DOMAIN r.img \ {iid} |-> r.img[i]],
   zset |-> r.zset]

RedisClient_delete_image(r, iid, uid) ==
  [img  |-> [i \in DOMAIN r.img \ {iid} |-> r.img[i]],
   zset |-> [r.zset EXCEPT ![uid] = [i \in DOMAIN @ \ {iid} |-> @[i]]]]

\* dict.get on a hash read back from Redis; None for a missing field
NoneStr == <<"<None>">>

Get(data, field) == IF field \in DOMAIN data THEN data[field] ELSE NoneStr

GetOwner(data) == IF "owner_uid" \in DOMAIN data THEN data.owner_uid ELSE None

\* Python truthiness of a string read with dict.get: None and "" are falsy
Truthy(v) == v # NoneStr /\ v # <<>>

(***************************************************************************)
(* State                                                                   *)
(* redis   : the metadata index                                            *)
(* s3      : the keys that hold an object in the bucket                    *)
(* handles : the handles initiate has returned to clients                  *)
(* clock   : time.time() in whole seconds                                  *)
(* last    : the last request served: its arguments, the gateway calls it  *)
(*           made, in order, and what it returned                          *)
(* nfinal  : the number of finalize requests served so far                 *)
(* pipe    : the redis-py pipeline a request in progress is building, with *)
(*           the commands buffered so far; NoPipe when every request runs  *)
(*           to completion before the next is served                       *)
(***************************************************************************)
NoRequest == [op |-> "none"]

NoPipe == [op |-> "none"]

Init ==
  /\ redis = [img |-> [i \in {} |-> EmptyHash], zset |-> [u \in Uids |-> [i \in {} |-> 0]]]
  /\ s3 = {}
  /\ handles = {}
  /\ clock = 0
  /\ last = NoRequest
  /\ nfinal = 0
  /\ pipe = NoPipe

UsedIids == {h.iid : h \in handles}

\* now(): int(time.time())
now == clock

(***************************************************************************)
(* ImageService.initiate_upload                                            *)
(***************************************************************************)
InitiateResult(uid, iid, filename, mime_type) ==
  LET safe_filename == Utils_sanitize_filename(filename, DefaultMaxLen)
      key           == <<"uploads/", uid, "/", iid, "/">> \o safe_filename
  IN  [iid |-> iid, key |-> key, filename |-> safe_filename,
       presigned_url |-> S3Client_generate_presigned_upload_url(key, mime_type)]

\* variant: initiate records the upload as pending in the index
ImageService_initiate_upload_Pending(uid, filename, mime_type) ==
  \E iid \in Iids \ UsedIids :
    LET res == InitiateResult(uid, iid, filename, mime_type)
    IN  /\ handles' = handles \cup {[iid |-> res.iid, key |-> res.key,
                                      filename |-> res.filename, uid |-> uid]}
        /\ redis' = RedisClient_store_image(redis, iid, uid, res.key, <<>>,
                                            res.filename, mime_type, now)
        /\ last' = [op |-> "initiate", uid |-> uid, iid |-> iid, result |-> res,
                    s3_calls |-> <<"generate_presigned_upload_url">>,
                    redis_calls |-> <<"store_image">>]
        /\ UNCHANGED <<s3, clock, nfinal, pipe>>

\* uuid4 draws an id that was never issued before
ImageService_initiate_upload(uid, filename, mime_type) ==
  \E iid \in Iids \ UsedIids :
    LET res == InitiateResult(uid, iid, filename, mime_type)
    IN  /\ handles' = handles \cup {[iid |-> res.iid, key |-> res.key,
                                      filename |-> res.filename, uid |-> uid]}
        /\ last' = [op |-> "initiate", uid |-> uid, iid |-> iid, result |-> res,
                    s3_calls |-> <<"generate_presigned_upload_url">>,
                    redis_calls |-> <<>>]
        /\ UNCHANGED <<redis, s3, clock, nfinal, pipe>>

(***************************************************************************)
(* ImageService.finalize_upload                                            *)
(***************************************************************************)
\* variant: the owner is read off the client's key, uploads/<uid>/...
FinalizeRedis_OwnerFromKey(r, uid, iid, key, filename, mime_type, t) ==
  RedisClient_store_image(r, iid, key[2], key, S3Client_get_public_url(key),
                          filename, mime_type, t)

FinalizeRedis(r, uid, iid, key, filename, mime_type, t) ==
  RedisClient_store_image(r, iid, uid, key, S3Client_get_public_url(key),
                          filename, mime_type, t)

ImageService_finalize_upload(uid, iid, key, filename, mime_type) ==
  /\ nfinal < MaxFinalize
  /\ nfinal' = nfinal + 1
  /\ redis' = FinalizeRedis(redis, uid, iid, key, filename, mime_type, now)
  /\ last' = [op |-> "finalize", uid |-> uid, iid |-> iid,
              key |-> key, body_owner |-> None,
              result |-> [id |-> iid, url |-> S3Client_get_public_url(key)],
              s3_calls |-> <<>>, redis_calls |-> <<"store_image">>]
  /\ UNCHANGED <<s3, handles, clock, pipe>>

(***************************************************************************)
(* ImageService.get_user_gallery                                           *)
(***************************************************************************)
GalleryLimit == 50

SetField(data, field, v) ==
  [f \in DOMAIN data \cup {field} |-> IF f = field THEN v ELSE data[f]]

\* variant: a reference that holds a "#" counts as usable
Unusable_NoMarker(url) == ~Truthy(url) \/ StartsWith(url, "s3://")

\* reference is unusable: empty or missing, s3:// scheme, or holds a "#"
Unusable(url) == ~Truthy(url) \/ StartsWith(url, "s3://") \/ Contains(url, "#")

\* the body of the loop over the batch, for one non-empty hash
CleanItem(data) ==
  LET url      == Get(data, "url")
      key      == Get(data, "key")
      repaired == IF Truthy(key) /\ Unusable(url)
                  THEN SetField(data, "url", S3Client_get_public_url(key))
                  ELSE data
  IN  IF ~Truthy(Get(repaired, "url"))
      THEN SetField(repaired, "url", <<"/api/v1/image/", data.id>>)
      ELSE repaired

\* variant: the loop stops at the first empty hash instead of skipping it
RECURSIVE CleanItems_StopAtAbsent(_)
CleanItems_StopAtAbsent(results) ==
  IF results = <<>> THEN <<>>
  ELSE IF DOMAIN Head(results) = {} THEN <<>>
  ELSE <<CleanItem(Head(results))>> \o CleanItems_StopAtAbsent(Tail(results))

RECURSIVE CleanItems(_)
CleanItems(results) ==
  IF results = <<>> THEN <<>>
  ELSE IF DOMAIN Head(results) = {} THEN CleanItems(Tail(results))
  ELSE <<CleanItem(Head(results))>> \o CleanItems(Tail(results))

Gallery(r, uid) ==
  CleanItems(RedisClient_get_images_batch(r,
               RedisClient_get_user_images(r, uid, GalleryLimit)))

ImageService_get_user_gallery(uid) ==
  /\ last' = [op |-> "gallery", uid |-> uid,
              result |-> Gallery(redis, uid),
              s3_calls |-> <<>>,
              redis_calls |-> <<"get_user_images", "get_images_batch">>]
  /\ UNCHANGED <<redis, s3, handles, clock, nfinal, pipe>>

(***************************************************************************)
(* ImageService.get_image_download_url                                     *)
(***************************************************************************)
\* variant: a record without a key is presigned like any other
DownloadUrl_NoKeyCheck(r, iid) ==
  LET img_data == RedisClient_get_image(r, iid)
  IN  IF DOMAIN img_data = {} THEN [returns |-> None]
      ELSE [returns |-> S3Client_generate_presigned_download_url(Get(img_data, "key"))]

DownloadUrl(r, iid) ==
  LET img_data == RedisClient_get_image(r, iid)
      s3_key   == Get(img_data, "key")
  IN  IF DOMAIN img_data = {} THEN [returns |-> None]
      ELSE IF ~Truthy(s3_key) THEN [raises |-> "ValueError"]
      ELSE [returns |-> S3Client_generate_presigned_download_url(s3_key)]

ImageService_get_image_download_url(iid) ==
  /\ last' = [op |-> "download", iid |-> iid,
              result |-> DownloadUrl(redis, iid),
              s3_calls |-> <<>>, redis_calls |-> <<"get_image">>]
  /\ UNCHANGED <<redis, s3, handles, clock, nfinal, pipe>>

(***************************************************************************)
(* ImageService.delete_image                                               *)
(* s3_ok / redis_ok: whether the S3 DeleteObject call and the Redis        *)
(* pipeline succeed or raise                                               *)
(***************************************************************************)
\* variant: a missing record is reported like a foreign one
NotFound_AsForbidden == [error |-> "forbidden", code |-> 403]

NotFound == [error |-> "not_found", code |-> 404]

Forbidden == [error |-> "forbidden", code |-> 403]

CorruptRecord == [error |-> "corrupt_record", code |-> 500]

StorageError == [error |-> "storage_error", code |-> 500]

Success == [status |-> "success"]

\* variant: the ownership test is left out
DeleteOutcome_NoOwnerCheck(r, objects, iid, requester_uid, s3_ok, redis_ok) ==
  LET img_data == RedisClient_get_image(r, iid)
      s3_key   == Get(img_data, "key")
      quiet(res) == [redis |-> r, s3 |-> objects, result |-> res,
                     s3_calls |-> <<>>, redis_calls |-> <<"get_image">>]
  IN  IF DOMAIN img_data = {} THEN quiet(NotFound)
      ELSE IF ~Truthy(s3_key) THEN quiet(CorruptRecord)
      ELSE IF ~s3_ok
        THEN [redis |-> r, s3 |-> objects, result |-> StorageError,
              s3_calls |-> << <<"delete_object", s3_key, "raised">> >>,
              redis_calls |-> <<"get_image">>]
      ELSE IF ~redis_ok
        THEN [redis |-> r, s3 |-> S3Client_delete_object(objects, s3_key),
              result |-> StorageError,
              s3_calls |-> << <<"delete_object", s3_key, "ok">> >>,
              redis_calls |-> <<"get_image", "delete_image">>]
      ELSE [redis |-> RedisClient_delete_image(r, iid, requester_uid),
            s3 |-> S3Client_delete_object(objects, s3_key),
            result |-> Success,
            s3_calls |-> << <<"delete_object", s3_key, "ok">> >>,
            redis_calls |-> <<"get_image", "delete_image">>]

\* variant: the index is deleted first, the object second
DeleteOutcome_IndexFirst(r, objects, iid, requester_uid, s3_ok, redis_ok) ==
  LET img_data == RedisClient_get_image(r, iid)
      s3_key   == Get(img_data, "key")
      quiet(res) == [redis |-> r, s3 |-> objects, result |-> res,
                     s3_calls |-> <<>>, redis_calls |-> <<"get_image">>]
  IN  IF DOMAIN img_data = {} THEN quiet(NotFound)
      ELSE IF GetOwner(img_data) # requester_uid THEN quiet(Forbidden)
      ELSE IF ~Truthy(s3_key) THEN quiet(CorruptRecord)
      ELSE IF ~redis_ok
        THEN [redis |-> r, s3 |-> objects, result |-> StorageError,
              s3_calls |-> <<>>,
              redis_calls |-> <<"get_image", "delete_image">>]
      ELSE IF ~s3_ok
        THEN [redis |-> RedisClient_delete_image(r, iid, requester_uid),
              s3 |-> objects, result |-> StorageError,
              s3_calls |-> << <<"delete_object", s3_key, "raised">> >>,
              redis_calls |-> <<"get_image", "delete_image">>]
      ELSE [redis |-> RedisClient_delete_image(r, iid, requester_uid),
            s3 |-> S3Client_delete_object(objects, s3_key),
            result |-> Success,
            s3_calls |-> << <<"delete_object", s3_key, "ok">> >>,
            redis_calls |-> <<"get_image", "delete_image">>]

\* variant: DeleteObject raises when the key holds no object
DeleteOutcome_AbsentObjectRaises(r, objects, iid, requester_uid, s3_ok, redis_ok) ==
  LET img_data == RedisClient_get_image(r, iid)
      s3_key   == Get(img_data, "key")
      quiet(res) == [redis |-> r, s3 |-> objects, result |-> res,
                     s3_calls |-> <<>>, redis_calls |-> <<"get_image">>]
  IN  IF DOMAIN img_data = {} THEN quiet(NotFound)
      ELSE IF GetOwner(img_data) # requester_uid THEN quiet(Forbidden)
      ELSE IF ~Truthy(s3_key) THEN quiet(CorruptRecord)
      ELSE IF ~s3_ok \/ s3_key \notin objects
        THEN [redis |-> r, s3 |-> objects, result |-> StorageError,
              s3_calls |-> << <<"delete_object", s3_key, "raised">> >>,
              redis_calls |-> <<"get_image">>]
      ELSE IF ~redis_ok
        THEN [redis |-> r, s3 |-> S3Client_delete_object(objects, s3_key),
              result |-> StorageError,
              s3_calls |-> << <<"delete_object", s3_key, "ok">> >>,
              redis_calls |-> <<"get_image", "delete_image">>]
      ELSE [redis |-> RedisClient_delete_image(r, iid, requester_uid),
            s3 |-> S3Client_delete_object(objects, s3_key),
            result |-> Success,
            s3_calls |-> << <<"delete_object", s3_key, "ok">> >>,
            redis_calls |-> <<"get_image", "delete_image">>]

DeleteOutcome(r, objects, iid, requester_uid, s3_ok, redis_ok) ==
  LET img_data == RedisClient_get_image(r, iid)
      s3_key   == Get(img_data, "key")
      quiet(res) == [redis |-> r, s3 |-> objects, result |-> res,
                     s3_calls |-> <<>>, redis_calls |-> <<"get_image">>]
  IN  IF DOMAIN img_data = {} THEN quiet(NotFound)
      ELSE IF GetOwner(img_data) # requester_uid THEN quiet(Forbidden)
      ELSE IF ~Truthy(s3_key) THEN quiet(CorruptRecord)
      ELSE IF ~s3_ok
        THEN [redis |-> r, s3 |-> objects, result |-> StorageError,
              s3_calls |-> << <<"delete_object", s3_key, "raised">> >>,
              redis_calls |-> <<"get_image">>]
      ELSE IF ~redis_ok
        THEN [redis |-> r, s3 |-> S3Client_delete_object(objects, s3_key),
              result |-> StorageError,
              s3_calls |-> << <<"delete_object", s3_key, "ok">> >>,
              redis_calls |-> <<"get_image", "delete_image">>]
      ELSE [redis |-> RedisClient_delete_image(r, iid, requester_uid),
            s3 |-> S3Client_delete_object(objects, s3_key),
            result |-> Success,
            s3_calls |-> << <<"delete_object", s3_key, "ok">> >>,
            redis_calls |-> <<"get_image", "delete_image">>]

ImageService_delete_image(iid, requester_uid, s3_ok, redis_ok) ==
  LET out == DeleteOutcome(redis, s3, iid, requester_uid, s3_ok, redis_ok)
  IN  /\ redis' = out.redis
      /\ s3' = out.s3
      /\ last' = [op |-> "delete", iid |-> iid,
                  uid |-> requester_uid, result |-> out.result,
                  s3_calls |-> out.s3_calls, redis_calls |-> out.redis_calls]
      /\ UNCHANGED <<handles, clock, nfinal, pipe>>

(***************************************************************************)
(* Environment: the client's PUT to a presigned URL, and time passing      *)
(***************************************************************************)
client_put_object(h) ==
  /\ s3' = s3 \cup {h.key}
  /\ last' = NoRequest
  /\ UNCHANGED <<redis, handles, clock, nfinal, pipe>>

Tick ==
  /\ clock < MaxTime
  /\ clock' = clock + 1
  /\ last' = NoRequest
  /\ UNCHANGED <<redis, s3, handles, nfinal, pipe>>

(***************************************************************************)
(* The service layer under any sequence of requests.  Clients send to      *)
(* finalize any id and any key that initiate has handed out.               *)
(***************************************************************************)
HandleKeys == {[key |-> h.key, filename |-> h.filename] : h \in handles}

\* the S3 call and the Redis pipeline of a delete: both succeed, S3 raises,
\* or S3 succeeds and Redis raises
Faults == {<<TRUE, TRUE>>, <<FALSE, TRUE>>, <<TRUE, FALSE>>}

Next ==
  \/ \E uid \in Uids, f \in FileNames, m \in Mimes : ImageService_initiate_upload(uid, f, m)
  \/ \E uid \in Uids, i \in UsedIids, k \in HandleKeys, m \in Mimes :
       ImageService_finalize_upload(uid, i, k.key, k.filename, m)
  \/ \E uid \in Uids : ImageService_get_user_gallery(uid)
  \/ \E i \in Iids : ImageService_get_image_download_url(i)
  \/ \E i \in Iids, uid \in Uids, f \in Faults :
       ImageService_delete_image(i, uid, f[1], f[2])
  \/ \E h \in handles : client_put_object(h)
  \/ Tick

Spec == Init /\ [][Next]_vars

(***************************************************************************)
(* Properties                                                              *)
(***************************************************************************)
Range(f) == {f[x] : x \in DOMAIN f}

IsDelete(i, u, f) == ImageService_delete_image(i, u, f[1], f[2])

\* the record of i exists, belongs to u and has a storage key
OwnedWithKey(i, u) ==
  /\ i \in DOMAIN redis.img
  /\ redis.img[i].owner_uid = u
  /\ Truthy(redis.img[i].key)

\* C1: delete_image by a requester who is not the owner of an existing
\* record returns forbidden (403) and mutates nothing: no object-store
\* delete call and no index delete call are made, and the index and the
\* object store are unchanged.
C1_ForbiddenMutatesNothing ==
  [][\A i \in Iids, u \in Uids, f \in Faults :
       (IsDelete(i, u, f) /\ i \in DOMAIN redis.img /\ redis.img[i].owner_uid # u)
       => /\ last'.result = Forbidden
          /\ last'.result.code = 403
          /\ last'.s3_calls = <<>>
          /\ "delete_image" \notin Range(last'.redis_calls)
          /\ redis' = redis
          /\ s3' = s3]_vars

\* a forbidden delete has been served; record, listing entry of the owner
\* and stored object are all there
C1_Witness ==
  /\ last.op = "delete"
  /\ last.result = Forbidden
  /\ last.iid \in DOMAIN redis.img
  /\ redis.img[last.iid].owner_uid # last.uid
  /\ last.iid \in DOMAIN redis.zset[redis.img[last.iid].owner_uid]
  /\ redis.img[last.iid].key \in s3

\* C2: when the owner calls delete_image and the object-store delete call
\* raises, the operation returns the storage error and the index is
\* untouched: the record and its entry in the owner's listing are still
\* present.
C2_StoreFailureLeavesIndex ==
  [][\A i \in Iids, u \in Uids, f \in Faults :
       (IsDelete(i, u, f) /\ OwnedWithKey(i, u) /\ ~f[1])
       => /\ last'.result = StorageError
          /\ redis' = redis
          /\ i \in DOMAIN redis'.img
          /\ i \in DOMAIN redis'.zset[u]]_vars

C2_Witness ==
  /\ last.op = "delete"
  /\ last.result = StorageError
  /\ last.s3_calls # <<>>
  /\ last.s3_calls[1][3] = "raised"
  /\ last.iid \in DOMAIN redis.img
  /\ redis.img[last.iid].owner_uid = last.uid
  /\ last.iid \in DOMAIN redis.zset[last.uid]

\* what C3 promises of a delete of i by u
DeletedAll(i, u) ==
  /\ last'.result = Success
  /\ i \notin DOMAIN redis'.img
  /\ i \notin DOMAIN redis'.zset[u]
  /\ redis.img[i].key \notin s3'

IsFinalize(uid, i, k, m) == ImageService_finalize_upload(uid, i, k.key, k.filename, m)

\* the uid a key names, uploads/<uid>/<iid>/<filename>
KeyOwner(key) == key[2]

\* C4: finalize leaves exactly one record for the given id, whose owner_uid
\* is the authenticated caller and never the owner the client's request
\* names (the uid in the key it sends); the id is added to the caller's
\* listing and to no other listing, and no other record changes.
C4_FinalizeOwnerIsCaller ==
  [][\A uid \in Uids, i \in Iids, k \in HandleKeys, m \in Mimes :
       IsFinalize(uid, i, k, m)
       => /\ DOMAIN redis'.img = DOMAIN redis.img \cup {i}
          /\ redis'.img[i].id = i
          /\ redis'.img[i].owner_uid = uid
          /\ i \in DOMAIN redis'.zset[uid]
          /\ \A u \in Uids \ {uid} : redis'.zset[u] = redis.zset[u]
          /\ \A j \in DOMAIN redis.img \ {i} : redis'.img[j] = redis.img[j]]_vars

\* a finalize whose key names another owner than the caller has been served
C4_Witness ==
  /\ last.op = "finalize"
  /\ KeyOwner(last.key) # last.uid
  /\ redis.img[last.iid].owner_uid = last.uid
  /\ last.iid \in DOMAIN redis.zset[last.uid]
  /\ \A u \in Uids \ {last.uid} : last.iid \notin DOMAIN redis.zset[u]

IsInitiate(uid, f, m) == ImageService_initiate_upload(uid, f, m)

\* C5: initiate neither reads nor writes the index: the index after the
\* call is the index before it, the returned id has no record and no
\* listing entry, and as long as no finalize was served the index is empty.
C5_InitiateLeavesIndex ==
  [][\A uid \in Uids, f \in FileNames, m \in Mimes :
       IsInitiate(uid, f, m)
       => /\ redis' = redis
          /\ last'.redis_calls = <<>>
          /\ last'.result.iid \notin DOMAIN redis'.img
          /\ \A u \in Uids : last'.result.iid \notin DOMAIN redis'.zset[u]
          /\ (nfinal' = 0 =>
                /\ DOMAIN redis'.img = {}
                /\ \A u \in Uids : DOMAIN redis'.zset[u] = {})]_vars

\* a second initiate has been served while the index holds a record
C5_Witness ==
  /\ last.op = "initiate"
  /\ Cardinality(handles) = 2
  /\ DOMAIN redis.img # {}
  /\ last.iid \notin DOMAIN redis.img
  /\ \A u \in Uids : last.iid \notin DOMAIN redis.zset[u]

\* C6: when an owner whose listing is empty finalizes with a handle that
\* initiate returned to it (same id, key and display name), the gallery of
\* that owner has exactly one entry, and its id is the id initiate returned.
C6_InitiateFinalizeGallery ==
  [][\A h \in handles, m \in Mimes :
       (ImageService_finalize_upload(h.uid, h.iid, h.key, h.filename, m)
        /\ DOMAIN redis.zset[h.uid] = {})
       => LET g == Gallery(redis', h.uid)
          IN  /\ Len(g) = 1
              /\ g[1].id = h.iid
              /\ g[1].key = h.key
              /\ g[1].filename = h.filename]_vars

\* the gallery was listed after one initiate and one finalize with its handle
C6_Witness ==
  /\ last.op = "gallery"
  /\ nfinal = 1
  /\ Len(last.result) = 1
  /\ \E h \in handles :
       /\ h.uid = last.uid
       /\ h.iid = last.result[1].id
       /\ h.key = last.result[1].key

\* C7: an id is in owner u's listing if and only if a record with that id
\* exists in the index and its owner_uid is u.
C7_ListingMirrorsRecords ==
  \A u \in Uids, i \in Iids :
    i \in DOMAIN redis.zset[u] <=> (i \in DOMAIN redis.img /\ redis.img[i].owner_uid = u)

\* C9: the gallery of an owner holds that owner's records, newest
\* created_at first, after every sequence of finalize and delete calls
C9_GalleryOwnRecordsNewestFirst ==
  last.op = "gallery" =>
    /\ \A k \in 1..Len(last.result) : last.result[k].owner_uid = last.uid
    /\ \A j, k \in 1..Len(last.result) :
         j < k => last.result[j].created_at >= last.result[k].created_at

(***************************************************************************)
(* get_user_gallery over an index that holds older data.  The gallery is a *)
(* function of the index alone; the index starts with any listing of the   *)
(* owner and any records of the shapes older writers and the tests leave   *)
(* behind: no record under a listed id, a record with only its id, an      *)
(* empty key, a missing or empty url, an s3:// url, a url with "#".        *)
(***************************************************************************)
GalleryIids == {"img_a", "img_b", "img_c"}

GalleryOwner == "u1"

SeedKey == <<"k", "#", "1">>

SeedKeys == {<<>>, SeedKey}

SeedUrls ==
  {<<>>, S3Client_get_s3_url(SeedKey), <<"https://h/", "#", "x">>,
   <<"https://h/", "s3://">>}

SeedRecords(i) ==
  {[id |-> i]}
    \cup {[id |-> i, owner_uid |-> GalleryOwner, key |-> k] : k \in SeedKeys}
    \cup {[id |-> i, owner_uid |-> GalleryOwner, key |-> k, url |-> u] :
            k \in SeedKeys, u \in SeedUrls}

\* the hashes img:<id> the index may hold: any subset of the ids, each with
\* one of its record shapes
SeedImages ==
  UNION {{f \in [D -> UNION {SeedRecords(i) : i \in D}] :
            \A i \in D : f[i] \in SeedRecords(i)} : D \in SUBSET GalleryIids}

\* the sorted set of the owner: any subset of the ids, each with a score
SeedListings == UNION {[D -> 0..MaxTime] : D \in SUBSET GalleryIids}

InitGallery ==
  /\ \E img \in SeedImages, z \in SeedListings :
       redis = [img  |-> img,
                zset |-> [u \in Uids |-> IF u = GalleryOwner THEN z ELSE <<>>]]
  /\ s3 = {}
  /\ handles = {}
  /\ clock = 0
  /\ last = NoRequest
  /\ nfinal = 0
  /\ pipe = NoPipe

NextGallery == \E uid \in Uids : ImageService_get_user_gallery(uid)

SpecGallery == InitGallery /\ [][NextGallery]_vars

\* the ids of a gallery result, in order
ResultIds(res) == [k \in 1..Len(res) |-> res[k].id]

\* the listed ids of uid that have a record
ListedPresent(uid) == DOMAIN redis.zset[uid] \cap DOMAIN redis.img

\* the stored record has a storage key
HasKey(rec) == "key" \in DOMAIN rec /\ rec.key # <<>>

\* the stored reference is empty or missing, begins with s3://, or holds "#"
UnusableRef(rec) ==
  \/ "url" \notin DOMAIN rec
  \/ rec.url = <<>>
  \/ rec.url[1] = "s3://"
  \/ \E n \in 1..Len(rec.url) : rec.url[n] = "#"

\* C8: every listed present record with a key comes back with the public
\* URL of its key when its reference is unusable and with its reference
\* unchanged when it is usable; its other fields are untouched
C8_GalleryRepair ==
  last.op = "gallery" =>
    \A i \in ListedPresent(last.uid) :
      HasKey(redis.img[i]) =>
        \E k \in 1..Len(last.result) :
          LET item == last.result[k]
              rec  == redis.img[i]
          IN  /\ item.id = i
              /\ \A f \in DOMAIN rec \ {"url"} : item[f] = rec[f]
              /\ item.url = IF UnusableRef(rec)
                            THEN S3Client_get_public_url(rec.key)
                            ELSE rec.url

\* one gallery holds a repaired s3:// record, a repaired "#" record and a
\* record whose usable reference came back as stored
C8_Witness ==
  /\ last.op = "gallery"
  /\ \E a, b, c \in ListedPresent(last.uid) :
       /\ HasKey(redis.img[a]) /\ HasKey(redis.img[b]) /\ HasKey(redis.img[c])
       /\ "url" \in DOMAIN redis.img[a] /\ StartsWith(redis.img[a].url, "s3://")
       /\ "url" \in DOMAIN redis.img[b] /\ Contains(redis.img[b].url, "#")
       /\ ~StartsWith(redis.img[b].url, "s3://")
       /\ "url" \in DOMAIN redis.img[c] /\ ~UnusableRef(redis.img[c])
       /\ \E x, y, z \in 1..Len(last.result) :
            /\ last.result[x].id = a /\ last.result[y].id = b /\ last.result[z].id = c
            /\ last.result[x].url = S3Client_get_public_url(SeedKey)
            /\ last.result[y].url = S3Client_get_public_url(SeedKey)
            /\ last.result[z].url = redis.img[c].url

\* a comes before b in the listing z: higher score, ties by higher member
ListedBefore(z, a, b) ==
  z[a] > z[b] \/ (z[a] = z[b] /\ IidRank(a) > IidRank(b))

\* C10: a listed id without a record is skipped; the gallery does not fail
\* and returns exactly the records of the other listed ids in listing order
C10_AbsentEntriesSkipped ==
  (last.op = "gallery" /\ DOMAIN redis.zset[last.uid] \ DOMAIN redis.img # {}) =>
    LET res == last.result
        z   == redis.zset[last.uid]
    IN  /\ DOMAIN res = 1..Len(res)
        /\ Range(ResultIds(res)) = ListedPresent(last.uid)
        /\ Len(res) = Cardinality(ListedPresent(last.uid))
        /\ \A j, k \in 1..Len(res) :
             j < k => ListedBefore(z, res[j].id, res[k].id)
        /\ \A k \in 1..Len(res) :
             \A f \in DOMAIN redis.img[res[k].id] \ {"url"} :
               res[k][f] = redis.img[res[k].id][f]

\* the listing holds a, then an id without a record, then b, and the
\* gallery returned a then b
C10_Witness ==
  /\ last.op = "gallery"
  /\ \E a, d, b \in DOMAIN redis.zset[last.uid] :
       /\ d \notin DOMAIN redis.img
       /\ ListedBefore(redis.zset[last.uid], a, d)
       /\ ListedBefore(redis.zset[last.uid], d, b)
       /\ ResultIds(last.result) = <<a, b>>

\* C11: every listed present record without a storage key whose reference
\* is unusable comes back with the locator /api/v1/image/<id>, and every
\* record the gallery returns carries a usable reference
C11_KeylessFallback ==
  last.op = "gallery" =>
    /\ \A i \in ListedPresent(last.uid) :
         (~HasKey(redis.img[i]) /\ UnusableRef(redis.img[i])) =>
           \E k \in 1..Len(last.result) :
             /\ last.result[k].id = i
             /\ last.result[k].url = <<"/api/v1/image/", i>>
    /\ \A k \in 1..Len(last.result) : ~UnusableRef(last.result[k])

C13_AbsentRecordNotFound ==
  [][\A i \in Iids, u \in Uids, f \in Faults :
       (IsDelete(i, u, f) /\ i \notin DOMAIN redis.img)
       => /\ last'.result.error = "not_found" /\ last'.result.code = 404
          /\ last'.result # Forbidden
          /\ last'.s3_calls = <<>>
          /\ "delete_image" \notin Range(last'.redis_calls)
          /\ redis' = redis /\ s3' = s3]_vars

\* a delete of an id without a record was answered while the index holds
\* another record and the store holds an object
C13_Witness ==
  /\ last.op = "delete"
  /\ last.iid \notin DOMAIN redis.img
  /\ last.result = [error |-> "not_found", code |-> 404]
  /\ DOMAIN redis.img # {}
  /\ s3 # {}

(***************************************************************************)
(* delete_image and get_image_download_url over an index that holds older  *)
(* data: records without a key or without an owner, listed or not, and a   *)
(* store that may or may not hold the object of the seeded key.            *)
(***************************************************************************)
InitCorrupt ==
  /\ \E img \in {f \in SeedImages : DOMAIN f \subseteq Iids},
        z \in {l \in SeedListings : DOMAIN l \subseteq Iids} :
       redis = [img  |-> img,
                zset |-> [u \in Uids |-> IF u = GalleryOwner THEN z ELSE <<>>]]
  /\ s3 \in SUBSET {SeedKey}
  /\ handles = {}
  /\ clock = 0
  /\ last = NoRequest
  /\ nfinal = 0
  /\ pipe = NoPipe

NextCorrupt ==
  \/ \E i \in Iids, uid \in Uids, f \in Faults :
       ImageService_delete_image(i, uid, f[1], f[2])
  \/ \E i \in Iids : ImageService_get_image_download_url(i)

SpecCorrupt == InitCorrupt /\ [][NextCorrupt]_vars

IsDownload(i) == ImageService_get_image_download_url(i)

\* C14: on a record without a storage key delete_image answers the owner
\* with corrupt_record and anyone else with forbidden, and in both cases
\* touches neither store; get_image_download_url raises for a record
\* without a key and returns None for an absent record
C14_KeylessRecordSurfaced ==
  [][\A i \in Iids :
       /\ \A u \in Uids, f \in Faults :
            (IsDelete(i, u, f) /\ i \in DOMAIN redis.img /\ ~HasKey(redis.img[i]))
            => /\ last'.result =
                    IF GetOwner(redis.img[i]) = u
                    THEN [error |-> "corrupt_record", code |-> 500]
                    ELSE [error |-> "forbidden", code |-> 403]
               /\ last'.s3_calls = <<>>
               /\ "delete_image" \notin Range(last'.redis_calls)
               /\ redis' = redis /\ s3' = s3
       /\ (IsDownload(i) /\ i \notin DOMAIN redis.img)
            => last'.result = [returns |-> None]
       /\ (IsDownload(i) /\ i \in DOMAIN redis.img /\ ~HasKey(redis.img[i]))
            => DOMAIN last'.result = {"raises"}]_vars

\* the owner's delete of a keyless record was answered corrupt_record and
\* the record is still there
C14_Witness ==
  /\ last.op = "delete"
  /\ last.result = CorruptRecord
  /\ last.iid \in DOMAIN redis.img
  /\ ~HasKey(redis.img[last.iid])
  /\ GetOwner(redis.img[last.iid]) = last.uid

(***************************************************************************)
(* The service layer when no client ever transfers its object: every       *)
(* record points at a key that holds nothing in the store.                 *)
(***************************************************************************)
NextUntransferred ==
  \/ \E uid \in Uids, f \in FileNames, m \in Mimes : ImageService_initiate_upload(uid, f, m)
  \/ \E uid \in Uids, i \in UsedIids, k \in HandleKeys, m \in Mimes :
       ImageService_finalize_upload(uid, i, k.key, k.filename, m)
  \/ \E i \in Iids, uid \in Uids, f \in Faults :
       ImageService_delete_image(i, uid, f[1], f[2])
  \/ Tick

SpecUntransferred == Init /\ [][NextUntransferred]_vars

ApplyCommand(r, c) ==
  CASE c.cmd = "HSET" ->
         [r EXCEPT !.img = [i \in DOMAIN r.img \cup {c.iid} |->
                              IF i = c.iid THEN c.mapping ELSE r.img[i]]]
    [] c.cmd = "ZADD" ->
         [r EXCEPT !.zset[c.uid] = [i \in DOMAIN @ \cup {c.iid} |->
                                      IF i = c.iid THEN c.score ELSE @[i]]]
    [] c.cmd = "DEL" ->
         [r EXCEPT !.img = [i \in DOMAIN r.img \ {c.iid} |-> r.img[i]]]
    [] c.cmd = "ZREM" ->
         [r EXCEPT !.zset[c.uid] = [i \in DOMAIN @ \ {c.iid} |-> @[i]]]

\* variant: the buffer is sent without MULTI and the connection drops
\* after the first command
Execute_FirstOnly(r, queue) ==
  IF queue = <<>> THEN r ELSE ApplyCommand(r, Head(queue))

\* EXEC: the buffered commands run in order with nothing in between
RECURSIVE Execute(_, _)
Execute(r, queue) ==
  IF queue = <<>> THEN r ELSE Execute(ApplyCommand(r, Head(queue)), Tail(queue))

\* the commands a pipeline buffers, in the order of the pipe.<command> calls
PipelineCommands(p) ==
  IF p.op = "store_image"
  THEN << [cmd |-> "HSET", iid |-> p.iid,
           mapping |-> [id |-> p.iid, owner_uid |-> p.uid, key |-> p.key,
                        url |-> p.url, filename |-> p.filename,
                        mime |-> p.mime_type, private |-> 1,
                        created_at |-> p.created_at, views |-> 0]],
          [cmd |-> "ZADD", uid |-> p.uid, iid |-> p.iid, score |-> p.created_at] >>
  ELSE << [cmd |-> "DEL", iid |-> p.iid],
          [cmd |-> "ZREM", uid |-> p.uid, iid |-> p.iid] >>

\* finalize_upload up to the point where store_image has opened its pipeline
finalize_upload_call(uid, iid, key, filename, mime_type) ==
  /\ pipe = NoPipe
  /\ nfinal < MaxFinalize
  /\ nfinal' = nfinal + 1
  /\ pipe' = [op |-> "store_image", iid |-> iid, uid |-> uid, key |-> key,
              url |-> S3Client_get_public_url(key), filename |-> filename,
              mime_type |-> mime_type, created_at |-> now, queue |-> <<>>]
  /\ UNCHANGED <<redis, s3, handles, clock, last>>

\* delete_image up to the point where the object is deleted and
\* RedisClient.delete_image has opened its pipeline
delete_image_call(iid, requester_uid) ==
  LET img_data == RedisClient_get_image(redis, iid)
      s3_key   == Get(img_data, "key")
  IN  /\ pipe = NoPipe
      /\ DOMAIN img_data # {}
      /\ GetOwner(img_data) = requester_uid
      /\ Truthy(s3_key)
      /\ s3' = S3Client_delete_object(s3, s3_key)
      /\ pipe' = [op |-> "delete_image", iid |-> iid, uid |-> requester_uid,
                  key |-> s3_key, queue |-> <<>>]
      /\ UNCHANGED <<redis, handles, clock, last, nfinal>>

\* pipe.hset / pipe.zadd / pipe.delete / pipe.zrem: buffer the next command
pipe_command ==
  /\ pipe # NoPipe
  /\ Len(pipe.queue) < Len(PipelineCommands(pipe))
  /\ pipe' = [pipe EXCEPT !.queue = Append(@, PipelineCommands(pipe)[Len(@) + 1])]
  /\ UNCHANGED <<redis, s3, handles, clock, last, nfinal>>

\* pipe.execute(), and the request returns
pipe_execute ==
  /\ pipe # NoPipe
  /\ Len(pipe.queue) = Len(PipelineCommands(pipe))
  /\ redis' = Execute(redis, pipe.queue)
  /\ last' = IF pipe.op = "store_image"
             THEN [op |-> "finalize", uid |-> pipe.uid, iid |-> pipe.iid,
                   key |-> pipe.key, body_owner |-> None,
                   result |-> [id |-> pipe.iid, url |-> pipe.url],
                   s3_calls |-> <<>>, redis_calls |-> <<"store_image">>]
             ELSE [op |-> "delete", iid |-> pipe.iid, uid |-> pipe.uid,
                   result |-> Success,
                   s3_calls |-> << <<"delete_object", pipe.key, "ok">> >>,
                   redis_calls |-> <<"get_image", "delete_image">>]
  /\ pipe' = NoPipe
  /\ UNCHANGED <<s3, handles, clock, nfinal>>

\* the connection is lost before EXEC is sent: execute() raises
pipe_raise ==
  /\ pipe # NoPipe
  /\ Len(pipe.queue) = Len(PipelineCommands(pipe))
  /\ last' = [op |-> pipe.op, iid |-> pipe.iid, uid |-> pipe.uid,
              result |-> [raises |-> "ConnectionError"],
              s3_calls |-> <<>>, redis_calls |-> <<pipe.op>>]
  /\ pipe' = NoPipe
  /\ UNCHANGED <<redis, s3, handles, clock, nfinal>>

NextPipeline ==
  \/ \E uid \in Uids, f \in FileNames, m \in Mimes : ImageService_initiate_upload(uid, f, m)
  \/ \E uid \in Uids, i \in UsedIids, k \in HandleKeys, m \in Mimes :
       finalize_upload_call(uid, i, k.key, k.filename, m)
  \/ \E i \in Iids, uid \in Uids : delete_image_call(i, uid)
  \/ pipe_command
  \/ pipe_execute
  \/ pipe_raise
  \/ \E uid \in Uids : ImageService_get_user_gallery(uid)
  \/ \E i \in Iids : ImageService_get_image_download_url(i)
  \/ Tick

SpecPipeline == Init /\ [][NextPipeline]_vars

C17_RecordFieldsImmutable ==
  [][\A i \in DOMAIN redis.img \cap DOMAIN redis'.img :
       /\ redis'.img[i].owner_uid = redis.img[i].owner_uid
       /\ redis'.img[i].key = redis.img[i].key
       /\ redis'.img[i].created_at = redis.img[i].created_at]_vars

\* C18: no two records that belong to different owners have the same
\* storage key
C18_KeysNamespacedPerOwner ==
  \A i, j \in DOMAIN redis.img :
    redis.img[i].owner_uid # redis.img[j].owner_uid
      => redis.img[i].key # redis.img[j].key

(***************************************************************************)
(* Utils.sanitize_filename on its own: any name of up to MaxNameLen        *)
(* characters, any small max_len and the default one.                      *)
(***************************************************************************)
SanitizeChars == {"a", "P", ".", "-", "_", "#", "/", "e_acute"}

SanitizeNames == UNION {[1..n -> SanitizeChars] : n \in 0..MaxNameLen}

SanitizeMaxLens == 0..MaxCut \cup {DefaultMaxLen}

\* one call of the function per behaviour
sanitize_request(filename, max_len) ==
  /\ last = NoRequest
  /\ last' = [op |-> "sanitize_filename", filename |-> filename,
              max_len |-> max_len,
              result |-> Utils_sanitize_filename(filename, max_len)]
  /\ UNCHANGED <<redis, s3, handles, clock, nfinal, pipe>>

NextSanitize ==
  \E f \in SanitizeNames, m \in SanitizeMaxLens : sanitize_request(f, m)

SpecSanitize == Init /\ [][NextSanitize]_vars

\* C19: sanitize_filename applied to its own output, with the same max_len,
\* returns that output unchanged
C19_SanitizeIdempotent ==
  last.op = "sanitize_filename" =>
    Utils_sanitize_filename(last.result, last.max_len) = last.result

\* the characters [a-z0-9_.-] among the atoms of the model
SafeChars == LowerChars \cup {"_", ".", "-"}

\* out is a non-empty base of at most max_len characters followed by
\* nothing or by "." and one or more of [a-z0-9], all of it in [a-z0-9_.-]
WellFormed(out, max_len) ==
  /\ \A k \in 1..Len(out) : out[k] \in SafeChars
  /\ \E n \in 1..Len(out) :
       /\ n <= max_len
       /\ \/ n = Len(out)
          \/ /\ n + 1 < Len(out)
             /\ out[n + 1] = "."
             /\ \A k \in (n + 2)..Len(out) : out[k] \in LowerChars

\* C20 as stated: well-formed output for all inputs and all max_len values
C20_AsStated ==
  last.op = "sanitize_filename" => WellFormed(last.result, last.max_len)

\* C20: for all inputs and every max_len of at least 1 the output holds only
\* [a-z0-9_.-], has a non-empty base, and is no longer than max_len plus
\* the emitted extension
C20_WellFormedOutput ==
  (last.op = "sanitize_filename" /\ last.max_len >= 1)
    => WellFormed(last.result, last.max_len)

\* a name whose base cleans to nothing: "file" is substituted, cut to
\* max_len 2, and the lowered extension is emitted
C20_Witness ==
  /\ last.op = "sanitize_filename"
  /\ last.filename = <<"#", ".", "P">>
  /\ last.max_len = 2
  /\ last.result = <<"f", "i", ".", "p">>

\* C21: a finalize on an id that already has a record returns normally and
\* the last write wins: the index then holds for that id the record with the
\* fields of this call, and the id is listed exactly once for its owner
C21_FinalizeLastWriteWins ==
  [][\A u \in Uids, i \in Iids, k \in HandleKeys, m \in Mimes :
       (IsFinalize(u, i, k, m) /\ i \in DOMAIN redis.img)
       => /\ last'.result = [id |-> i, url |-> S3Client_get_public_url(k.key)]
          /\ redis'.img[i] =
               [id |-> i, owner_uid |-> u, key |-> k.key,
                url |-> S3Client_get_public_url(k.key), filename |-> k.filename,
                mime |-> m, private |-> 1, created_at |-> clock, views |-> 0]
          /\ DOMAIN redis'.img = DOMAIN redis.img
          /\ LET ids == RedisClient_get_user_images(redis', u, GalleryLimit)
             IN  Cardinality({n \in 1..Len(ids) : ids[n] = i}) = 1]_vars

\* the second finalize of an id, one second after the first and by another
\* caller, has replaced the first record
C21_Witness ==
  /\ last.op = "finalize"
  /\ nfinal = 2
  /\ last.iid \in DOMAIN redis.img
  /\ redis.img[last.iid].owner_uid = last.uid
  /\ redis.img[last.iid].created_at = 1
  /\ \E u \in Uids \ {last.uid} :
       /\ last.iid \in DOMAIN redis.zset[u]
       /\ redis.zset[u][last.iid] = 0

(***************************************************************************)
(* Concurrent delete requests.  Each of the workers in Procs serves one    *)
(* delete_image, one gateway call per step: the read of the record with    *)
(* the checks on it, the S3 delete, the Redis pipeline.  Here pipe maps    *)
(* each worker to the request it is serving.                               *)
(***************************************************************************)
Procs == {1, 2}

Idle == [pc |-> "idle"]

Done(iid, uid, res) == [pc |-> "done", iid |-> iid, uid |-> uid, result |-> res]

InitConcurrent ==
  /\ redis = [img |-> [i \in {} |-> EmptyHash], zset |-> [u \in Uids |-> [i \in {} |-> 0]]]
  /\ s3 = {}
  /\ handles = {}
  /\ clock = 0
  /\ last = NoRequest
  /\ nfinal = 0
  /\ pipe = [p \in Procs |-> Idle]

\* variant: deleting a record that is already gone raises
delete_image_redis_AbsentRaises(p, redis_ok) ==
  LET q == pipe[p]
  IN  /\ q.pc = "redis"
      /\ IF redis_ok /\ q.iid \in DOMAIN redis.img
         THEN /\ redis' = RedisClient_delete_image(redis, q.iid, q.uid)
              /\ pipe' = [pipe EXCEPT ![p] = Done(q.iid, q.uid, Success)]
         ELSE /\ redis' = redis
              /\ pipe' = [pipe EXCEPT ![p] = Done(q.iid, q.uid, StorageError)]
      /\ UNCHANGED <<s3, handles, clock, last, nfinal>>

\* img_data = redis_client.get_image(iid) and the three checks on it
delete_image_read(p, iid, requester_uid) ==
  LET img_data == RedisClient_get_image(redis, iid)
      s3_key   == Get(img_data, "key")
  IN  /\ pipe[p].pc = "idle"
      /\ pipe' = [pipe EXCEPT ![p] =
                    IF DOMAIN img_data = {} THEN Done(iid, requester_uid, NotFound)
                    ELSE IF GetOwner(img_data) # requester_uid
                      THEN Done(iid, requester_uid, Forbidden)
                    ELSE IF ~Truthy(s3_key)
                      THEN Done(iid, requester_uid, CorruptRecord)
                    ELSE [pc |-> "s3", iid |-> iid, uid |-> requester_uid,
                          key |-> s3_key]]
      /\ UNCHANGED <<redis, s3, handles, clock, last, nfinal>>

\* s3_client.delete_object(s3_key), which returns or raises
delete_image_s3(p, s3_ok) ==
  LET q == pipe[p]
  IN  /\ q.pc = "s3"
      /\ IF s3_ok
         THEN /\ s3' = S3Client_delete_object(s3, q.key)
              /\ pipe' = [pipe EXCEPT ![p] = [q EXCEPT !.pc = "redis"]]
         ELSE /\ s3' = s3
              /\ pipe' = [pipe EXCEPT ![p] = Done(q.iid, q.uid, StorageError)]
      /\ UNCHANGED <<redis, handles, clock, last, nfinal>>

\* redis_client.delete_image(iid, requester_uid), which returns or raises
delete_image_redis(p, redis_ok) ==
  LET q == pipe[p]
  IN  /\ q.pc = "redis"
      /\ IF redis_ok
         THEN /\ redis' = RedisClient_delete_image(redis, q.iid, q.uid)
              /\ pipe' = [pipe EXCEPT ![p] = Done(q.iid, q.uid, Success)]
         ELSE /\ redis' = redis
              /\ pipe' = [pipe EXCEPT ![p] = Done(q.iid, q.uid, StorageError)]
      /\ UNCHANGED <<s3, handles, clock, last, nfinal>>

\* the requests that run to completion between two steps of the workers
WholeRequest ==
  \/ \E uid \in Uids, f \in FileNames, m \in Mimes : ImageService_initiate_upload(uid, f, m)
  \/ \E uid \in Uids, i \in UsedIids, k \in HandleKeys, m \in Mimes :
       ImageService_finalize_upload(uid, i, k.key, k.filename, m)
  \/ \E h \in handles : client_put_object(h)

DeleteStep(p) ==
  \/ \E i \in Iids, uid \in Uids : delete_image_read(p, i, uid)
  \/ \E ok \in BOOLEAN : delete_image_s3(p, ok)
  \/ \E ok \in BOOLEAN : delete_image_redis(p, ok)

\* deletes racing with finalize requests
NextRace ==
  \/ WholeRequest
  \/ \E p \in Procs : DeleteStep(p)

SpecRace == InitConcurrent /\ [][NextRace]_vars

AllDone == \A p \in Procs : pipe[p].pc = "done"

\* C24: whatever finalize and delete requests run between its steps, the
\* record a delete_image(id, r) removes has owner_uid r when it is removed,
\* the object it deleted is the one that record points to, and once every
\* request has completed the listings mirror the records
C24_DeleteCheckStaysValid ==
  [][/\ \A p \in Procs :
          (pipe[p].pc = "redis" /\ pipe'[p].pc = "done"
             /\ pipe[p].iid \in DOMAIN redis.img
             /\ pipe[p].iid \notin DOMAIN redis'.img)
          => /\ redis.img[pipe[p].iid].owner_uid = pipe[p].uid
             /\ redis.img[pipe[p].iid].key = pipe[p].key
     /\ AllDone' =>
          \A u \in Uids, i \in Iids :
            i \in DOMAIN redis'.zset[u]
              <=> (i \in DOMAIN redis'.img /\ redis'.img[i].owner_uid = u)]_vars

\* deletes that start once the uploads are over; each worker, once it has
\* read the record, runs on to its return
NextTwoDeletes ==
  \/ (\A p \in Procs : pipe[p].pc = "idle") /\ WholeRequest
  \/ \E p \in Procs : DeleteStep(p)

WorkerRuns(p) ==
  \/ \E ok \in BOOLEAN : delete_image_s3(p, ok)
  \/ \E ok \in BOOLEAN : delete_image_redis(p, ok)

SpecTwoDeletes ==
  InitConcurrent /\ [][NextTwoDeletes]_vars /\ \A p \in Procs : WF_vars(WorkerRuns(p))

\* the records and listing entries other than record i and entry (u, i)
\* are the same in r1 and r2
SameElsewhere(r1, r2, i, u) ==
  /\ DOMAIN r1.img \ {i} = DOMAIN r2.img \ {i}
  /\ \A j \in DOMAIN r1.img \ {i} : r1.img[j] = r2.img[j]
  /\ \A v \in Uids :
       LET skip == IF v = u THEN {i} ELSE {}
       IN  /\ DOMAIN r1.zset[v] \ skip = DOMAIN r2.zset[v] \ skip
           /\ \A j \in DOMAIN r1.zset[v] \ skip : r1.zset[v][j] = r2.zset[v][j]

\* C22: an index delete of (id, owner) whose record is already gone changes
\* nothing and returns normally; every step of a delete leaves all other
\* records and listing entries alone; two deletes of one id by its owner,
\* one after the other or interleaved at any step, both return, and once
\* one of them has returned success the record and its listing entry are gone
C22_DeleteIsIdempotent ==
  /\ [][/\ \A p \in Procs :
             /\ (delete_image_redis(p, TRUE) /\ pipe[p].iid \notin DOMAIN redis.img)
                  => (pipe'[p].result = [status |-> "success"] /\ redis' = redis)
             /\ pipe'[p] # pipe[p]
                  => SameElsewhere(redis, redis', pipe'[p].iid, pipe'[p].uid)
        /\ (/\ AllDone'
            /\ pipe'[1].iid = pipe'[2].iid
            /\ pipe'[1].uid = pipe'[2].uid
            /\ \E p \in Procs : pipe'[p].result = [status |-> "success"])
           => /\ pipe'[1].iid \notin DOMAIN redis'.img
              /\ pipe'[1].iid \notin DOMAIN redis'.zset[pipe'[1].uid]]_vars
  /\ \A p \in Procs : (pipe[p].pc \in {"s3", "redis"}) ~> (pipe[p].pc = "done")

\* two deletes of the same id by its owner both passed the owner check
\* before either reached the index, and both returned success
C22_Witness ==
  /\ AllDone
  /\ pipe[1].iid = pipe[2].iid
  /\ pipe[1].uid = pipe[2].uid
  /\ pipe[1].result = Success
  /\ pipe[2].result = Success
  /\ pipe[1].iid \notin DOMAIN redis.img
  /\ pipe[1].iid \notin DOMAIN redis.zset[pipe[1].uid]
  /\ DOMAIN redis.img # {}

\* C23: in every reachable state every record in the gallery of an owner
\* has that owner as its owner_uid
C23_GalleryIsolation ==
  \A u \in Uids :
    LET items == Gallery(redis, u)
    IN  \A n \in 1..Len(items) : items[n].owner_uid = u

\* C25: a delete_image that returns success to requester r removes from the
\* store only an object whose key initiate issued to r, a key under
\* uploads/<r>/
C25_DeleteOnlyOwnObjects ==
  [][\A i \in Iids, u \in Uids, f \in Faults :
       (IsDelete(i, u, f) /\ last'.result = [status |-> "success"])
       => \A key \in s3 \ s3' :
            /\ KeyOwner(key) = u
            /\ \E h \in handles : h.key = key /\ h.uid = u]_vars

=============================================================================
